---- MODULE Spec2Model ----
(***************************************************************************)
(* A model of convert-swete.py: the SAX content handler SweteLXX, driven   *)
(* by the events an XML parser delivers for a well-formed document.        *)
(*                                                                         *)
(* A Python str is a sequence of characters, each character a TLA+ string  *)
(* ("a", "-", "pilcrow", ...).  An optional value (None or a value) is a   *)
(* sequence of length 0 or 1.                                              *)
(***************************************************************************)
EXTENDS Integers, Sequences, FiniteSets, TLC

VARIABLES
    self,      \* the SweteLXX instance: a record of its attributes
    stack,     \* the parser's stack of open elements (innermost last)
    rooted,    \* the document element has been opened
    status,    \* "parsing", "done" (endDocument returned) or "aborted"
    error,     \* the exception that left parser.parse(), or "none"
    files,     \* what endDocument wrote to a file: <<>> or <<[book, content]>>
    console,   \* what endDocument printed: a sequence of characters
    left,      \* how many more events the document may deliver
    ev,        \* the event handled last
    pre,       \* self as it was before that event
    hist       \* what the document has delivered so far (see Hist0)

vars == <<self, stack, rooted, status, error, files, console, left, ev, pre, hist>>

-----------------------------------------------------------------------------
(* Bounds of the model: the number of events (open, close, text run) of    *)
(* the documents each specification explores.                              *)

MaxEvents == 6
MaxEventsNotes == 7
MaxEventsTokens == 3
MaxEventsIdno == 5
MaxEventsLines == 6
MaxEventsHandler == 5
MaxEventsMarkers == 4

-----------------------------------------------------------------------------
(* Characters and strings.                                                 *)

None == <<>>
Some(x) == <<x>>

\* str.split() separates on runs of these
Whitespace == {" ", "\n"}

FILTER_CHARS == <<"pilcrow", "[", "]", "section">>

\* the characters koinenlp.remove_punctuation removes
Punctuation == {".", ",", "middot"}

DigitVal == [c \in {"0", "1", "2", "3", "4", "5", "6", "7", "8", "9"} |->
               CASE c = "0" -> 0 [] c = "1" -> 1 [] c = "2" -> 2 [] c = "3" -> 3
                 [] c = "4" -> 4 [] c = "5" -> 5 [] c = "6" -> 6 [] c = "7" -> 7
                 [] c = "8" -> 8 [] c = "9" -> 9]

DigitChar == <<"0", "1", "2", "3", "4", "5", "6", "7", "8", "9">>

IsDigit(c) == c \in DOMAIN DigitVal

\* s[i:j] with 0 <= i <= j: never fails, clips to the length of s
Slice(s, i, j) ==
    LET hi == IF j < Len(s) THEN j ELSE Len(s)
    IN  IF i >= hi THEN <<>> ELSE SubSeq(s, i + 1, hi)

\* s[:-1]
DropLast(s) == IF s = <<>> THEN <<>> ELSE SubSeq(s, 1, Len(s) - 1)

\* s[-1], for a non-empty s
Last(s) == s[Len(s)]

RECURSIVE Concat(_)
Concat(ss) == IF ss = <<>> THEN <<>> ELSE Head(ss) \o Concat(Tail(ss))

\* str.strip()
RECURSIVE LStrip(_)
LStrip(s) == IF s # <<>> /\ Head(s) \in Whitespace THEN LStrip(Tail(s)) ELSE s

RECURSIVE RStrip(_)
RStrip(s) == IF s # <<>> /\ Last(s) \in Whitespace THEN RStrip(DropLast(s)) ELSE s

Strip(s) == RStrip(LStrip(s))

\* data.split(): the maximal runs of non-whitespace characters, in order
RECURSIVE SplitFrom(_, _, _, _)
SplitFrom(data, i, cur, acc) ==
    IF i > Len(data)
    THEN IF cur = <<>> THEN acc ELSE Append(acc, cur)
    ELSE IF data[i] \in Whitespace
         THEN SplitFrom(data, i + 1, <<>>, IF cur = <<>> THEN acc ELSE Append(acc, cur))
         ELSE SplitFrom(data, i + 1, Append(cur, data[i]), acc)

\* a split that hands a run of nothing but whitespace on as a token
Split_KeepBlank(data) ==
    IF data # <<>> /\ \A i \in 1..Len(data) : data[i] \in Whitespace
    THEN <<data>> ELSE SplitFrom(data, 1, <<>>, <<>>)

Split(data) == SplitFrom(data, 1, <<>>, <<>>)

\* a replace that stops after the first occurrence
RECURSIVE Replace_First(_, _, _)
Replace_First(s, old, new) ==
    IF s = <<>> THEN <<>>
    ELSE IF Head(s) = old THEN new \o Tail(s)
    ELSE <<Head(s)>> \o Replace_First(Tail(s), old, new)

\* s.replace(old, new) for a one-character old: every occurrence
RECURSIVE Replace(_, _, _)
Replace(s, old, new) ==
    IF s = <<>> THEN <<>>
    ELSE (IF Head(s) = old THEN new ELSE <<Head(s)>>) \o Replace(Tail(s), old, new)

\* the body of int(): digits with single underscores between them
RECURSIVE DigitsOk(_, _)
DigitsOk(s, afterDigit) ==
    IF s = <<>> THEN afterDigit
    ELSE IF IsDigit(Head(s)) THEN DigitsOk(Tail(s), TRUE)
    ELSE IF Head(s) = "_" THEN afterDigit /\ Tail(s) # <<>> /\ IsDigit(Head(Tail(s)))
                               /\ DigitsOk(Tail(s), FALSE)
    ELSE FALSE

Unsigned(s) == IF s # <<>> /\ Head(s) \in {"+", "-"} THEN Tail(s) ELSE s

\* int(s) does not raise ValueError
IsInt(s) == DigitsOk(Unsigned(Strip(s)), FALSE)

RECURSIVE DigitsValue(_, _)
DigitsValue(s, acc) ==
    IF s = <<>> THEN acc
    ELSE IF IsDigit(Head(s)) THEN DigitsValue(Tail(s), 10 * acc + DigitVal[Head(s)])
    ELSE DigitsValue(Tail(s), acc)

\* int(s), for a string with IsInt(s)
IntOf(s) ==
    LET t == Strip(s)
        v == DigitsValue(Unsigned(t), 0)
    IN  IF t # <<>> /\ Head(t) = "-" THEN 0 - v ELSE v

\* "{:d}".format(n) for n >= 0
RECURSIVE NatToStr(_)
NatToStr(n) == IF n < 10 THEN <<DigitChar[n + 1]>>
               ELSE Append(NatToStr(n \div 10), DigitChar[(n % 10) + 1])

IntToStr(n) == IF n < 0 THEN <<"-">> \o NatToStr(0 - n) ELSE NatToStr(n)

-----------------------------------------------------------------------------
(* The external primitives.                                                *)

\* koinenlp.remove_punctuation: the text without its punctuation characters
remove_punctuation(text) == SelectSeq(text, LAMBDA c : c \notin Punctuation)

\* unicodedata.normalize('NFC', text), on the characters of the model: a base
\* letter followed by its combining accent composes, and GREEK ANO TELEIA
\* normalises to MIDDLE DOT
RECURSIVE unicode_normalize(_)
unicode_normalize(text) ==
    IF text = <<>> THEN <<>>
    ELSE IF Len(text) >= 2 /\ text[1] = "a" /\ text[2] = "acute"
         THEN <<"a_acute">> \o unicode_normalize(Tail(Tail(text)))
    ELSE IF Head(text) = "anoteleia"
         THEN <<"middot">> \o unicode_normalize(Tail(text))
    ELSE <<Head(text)>> \o unicode_normalize(Tail(text))

-----------------------------------------------------------------------------
(* SweteLXX: the handler object and its methods.                           *)

\* a Python value that is an int or a str (current_chapter, current_verse)
PyInt(n) == [isint |-> TRUE, n |-> n, s |-> <<>>]
PyStr(s) == [isint |-> FALSE, n |-> 0, s |-> s]

\* "{}".format(v)
Format(v) == IF v.isint THEN IntToStr(v.n) ELSE v.s

\* OUTLINE.format(book, chapter, verse, token)
OUTLINE(book, chapter, verse, token) ==
    IntToStr(book) \o <<".">> \o Format(chapter) \o <<".">> \o Format(verse)
        \o <<" ">> \o token \o <<"\n">>

\* SweteLXX.__init__
SweteLXX(task, outfile) ==
    [ out_lines       |-> <<>>,
      in_book         |-> FALSE,
      in_header       |-> FALSE,
      in_idno         |-> FALSE,
      in_note         |-> FALSE,
      in_title        |-> FALSE,
      in_titlestmt    |-> FALSE,
      note_depth      |-> 0,
      task            |-> task,
      outfile         |-> outfile,
      lb_token        |-> None,
      current_chapter |-> PyInt(0),
      current_verse   |-> PyInt(0),
      current_book    |-> 0,
      book_title      |-> None ]

\* the attributes of an element: its subtype and n, each present or not
Attrs(subtype, n) == [subtype |-> subtype, n |-> n]
NoAttrs == Attrs(None, None)

\* attrs.getValue("n") raises KeyError
startElementRaises(name, attrs) ==
    /\ name = "div"
    /\ attrs.subtype \in {Some("chapter"), Some("verse")}
    /\ attrs.n = None

\* a chapter open that starts the verses again
startElement_ResetVerse(s, name, attrs) ==
    IF name = "div" /\ attrs.subtype = Some("chapter")
        THEN [s EXCEPT !.current_chapter = PyStr(attrs.n[1]), !.current_verse = PyInt(0)]
    ELSE IF name = "div" /\ attrs.subtype = Some("verse")
        THEN [s EXCEPT !.current_verse = PyStr(attrs.n[1])]
    ELSE IF name = "text" THEN [s EXCEPT !.in_book = TRUE]
    ELSE IF name = "head" THEN [s EXCEPT !.in_header = TRUE]
    ELSE IF name = "idno" THEN [s EXCEPT !.in_idno = TRUE]
    ELSE IF name = "titleStmt" THEN [s EXCEPT !.in_titlestmt = TRUE]
    ELSE IF name = "title" THEN [s EXCEPT !.in_title = TRUE]
    ELSE IF name = "note"
        THEN [s EXCEPT !.note_depth = s.note_depth + 1, !.in_note = TRUE]
    ELSE s

\* a note open that counts the depth and leaves the flag alone
startElement_DepthOnly(s, name, attrs) ==
    IF name = "note" THEN [s EXCEPT !.note_depth = s.note_depth + 1]
    ELSE IF name = "text" THEN [s EXCEPT !.in_book = TRUE]
    ELSE s

\* SweteLXX.startElement, when it does not raise
startElement(s, name, attrs) ==
    IF name = "div" /\ attrs.subtype = Some("chapter")
        THEN [s EXCEPT !.current_chapter = PyStr(attrs.n[1])]
    ELSE IF name = "div" /\ attrs.subtype = Some("verse")
        THEN [s EXCEPT !.current_verse = PyStr(attrs.n[1])]
    ELSE IF name = "text" THEN [s EXCEPT !.in_book = TRUE]
    ELSE IF name = "head" THEN [s EXCEPT !.in_header = TRUE]
    ELSE IF name = "idno" THEN [s EXCEPT !.in_idno = TRUE]
    ELSE IF name = "titleStmt" THEN [s EXCEPT !.in_titlestmt = TRUE]
    ELSE IF name = "title" THEN [s EXCEPT !.in_title = TRUE]
    ELSE IF name = "note"
        THEN [s EXCEPT !.note_depth = s.note_depth + 1, !.in_note = TRUE]
    ELSE s

\* endElement with a note close that releases the suppression at any depth
endElement_NoDepth(s, name) ==
    IF name = "text" THEN [s EXCEPT !.in_book = FALSE]
    ELSE IF name = "head" THEN [s EXCEPT !.in_header = FALSE]
    ELSE IF name = "idno" THEN [s EXCEPT !.in_idno = FALSE]
    ELSE IF name = "titleStmt" THEN [s EXCEPT !.in_titlestmt = FALSE]
    ELSE IF name = "title" THEN [s EXCEPT !.in_title = FALSE]
    ELSE IF name = "note"
        THEN [s EXCEPT !.note_depth = s.note_depth - 1, !.in_note = FALSE]
    ELSE s

\* endElement with a note counter that stops at 0
endElement_Clamped(s, name) ==
    IF name = "text" THEN [s EXCEPT !.in_book = FALSE]
    ELSE IF name = "head" THEN [s EXCEPT !.in_header = FALSE]
    ELSE IF name = "idno" THEN [s EXCEPT !.in_idno = FALSE]
    ELSE IF name = "titleStmt" THEN [s EXCEPT !.in_titlestmt = FALSE]
    ELSE IF name = "title" THEN [s EXCEPT !.in_title = FALSE]
    ELSE IF name = "note"
        THEN LET depth == IF s.note_depth > 0 THEN s.note_depth - 1 ELSE 0
             IN  [s EXCEPT !.note_depth = depth,
                           !.in_note = IF depth < 1 THEN FALSE ELSE s.in_note]
    ELSE s

\* SweteLXX.endElement
endElement(s, name) ==
    IF name = "text" THEN [s EXCEPT !.in_book = FALSE]
    ELSE IF name = "head" THEN [s EXCEPT !.in_header = FALSE]
    ELSE IF name = "idno" THEN [s EXCEPT !.in_idno = FALSE]
    ELSE IF name = "titleStmt" THEN [s EXCEPT !.in_titlestmt = FALSE]
    ELSE IF name = "title" THEN [s EXCEPT !.in_title = FALSE]
    ELSE IF name = "note"
        THEN LET depth == s.note_depth - 1
             IN  [s EXCEPT !.note_depth = depth,
                           !.in_note = IF depth < 1 THEN FALSE ELSE s.in_note]
    ELSE s

\* Python truthiness of an optional str: not None and not empty
Truthy(opt) == opt # None /\ opt[1] # <<>>

\* token[-1] == "-"
EndsWithHyphen(token) == Last(token) = "-"

\* for char in FILTER_CHARS: token = token.replace(char, "")
RECURSIVE FilterFrom(_, _)
FilterFrom(token, k) ==
    IF k > Len(FILTER_CHARS) THEN token
    ELSE FilterFrom(Replace(token, FILTER_CHARS[k], <<>>), k + 1)

FilterToken(token) == FilterFrom(token, 1)

\* the shim for GREEK ANO TELEIA
Shim(token) == Replace(token, "anoteleia", <<"middot">>)

\* a split that looks at the last character only
HandlePunctuation_LastOnly(token) ==
    IF Last(token) \in Punctuation
    THEN <<DropLast(token), Some(<<Last(token)>>)>>
    ELSE <<token, None>>

\* "Handle punctuation": <<end_token, punct_token>>
HandlePunctuation(token) ==
    IF remove_punctuation(token) = DropLast(token)
    THEN <<DropLast(token), Some(<<Last(token)>>)>>
    ELSE <<token, None>>

\* the compare branch of "Output only the normalized form"
EmitCompare(s, end_token, punct_token) ==
    LET lines == Append(s.out_lines, unicode_normalize(end_token))
    IN  [s EXCEPT !.out_lines = IF Truthy(punct_token)
                                THEN Append(lines, punct_token[1])
                                ELSE lines]

\* a convert branch that drops the trailing punctuation
EmitConvert_EndToken(s, token) ==
    [s EXCEPT !.out_lines =
        Append(s.out_lines, OUTLINE(s.current_book, s.current_chapter, s.current_verse,
                                    unicode_normalize(HandlePunctuation(token)[1])))]

\* the convert branch
EmitConvert(s, token) ==
    [s EXCEPT !.out_lines =
        Append(s.out_lines, OUTLINE(s.current_book, s.current_chapter,
                                    s.current_verse, unicode_normalize(token)))]

\* an emission that starts the buffer afresh
Emit_Reset(s, token) == [s EXCEPT !.out_lines = <<unicode_normalize(token)>>]

Emit(s, token) ==
    LET parts == HandlePunctuation(token)
    IN  IF s.task = "compare" THEN EmitCompare(s, parts[1], parts[2])
        ELSE IF s.task = "convert" THEN EmitConvert(s, token)
        ELSE s

\* a join that puts the fragment after the token
JoinPending_Swapped(s, token) ==
    IF Truthy(s.lb_token)
    THEN <<[s EXCEPT !.lb_token = None], token \o s.lb_token[1]>>
    ELSE <<s, token>>

\* if self.lb_token: token = self.lb_token + token; self.lb_token = None
JoinPending(s, token) ==
    IF Truthy(s.lb_token)
    THEN <<[s EXCEPT !.lb_token = None], s.lb_token[1] \o token>>
    ELSE <<s, token>>

\* one iteration of "for token in tokens"
TokenStep(s, token) ==
    IF EndsWithHyphen(token)
    THEN [s EXCEPT !.lb_token = Some(DropLast(token))]
    ELSE LET joined == JoinPending(s, token)
             filtered == FilterToken(joined[2])
         IN  IF Len(filtered) < 1 THEN joined[1]
             ELSE Emit(joined[1], Shim(filtered))

RECURSIVE TokenLoop(_, _)
TokenLoop(s, tokens) ==
    IF tokens = <<>> THEN s
    ELSE TokenLoop(TokenStep(s, Head(tokens)), Tail(tokens))

\* a scope test that forgets the note
InScope_NoNote(s) == s.in_book /\ ~s.in_header

\* a scope test that forgets the header
InScope_NoHeader(s) == s.in_book /\ ~s.in_note

\* "If in the book not in a header, and not in a note"
InScope(s) == s.in_book /\ ~s.in_note /\ ~s.in_header

\* data[11:14]: where the book number stands in the identifier
IdOffset == 11
IdEnd == 14

\* int(data[11:14]) raises ValueError
charactersRaises(s, data) == s.in_idno /\ ~IsInt(Slice(data, IdOffset, IdEnd))

BookId(s, data) ==
    IF s.in_idno THEN [s EXCEPT !.current_book = IntOf(Slice(data, IdOffset, IdEnd))] ELSE s

BookTitle(s, data) ==
    IF s.in_titlestmt /\ s.in_title THEN [s EXCEPT !.book_title = Some(data)] ELSE s

\* SweteLXX.characters, when it does not raise
characters(s, data) ==
    LET s2 == BookTitle(BookId(s, data), data)
    IN  IF InScope(s2) THEN TokenLoop(s2, Split(data)) ELSE s2

\* the keys of TITLES, as numbers
TitledBooks == (1..59) \ {7, 9, 22, 30}

\* get_filename raises KeyError
endDocumentRaises(s) == s.outfile /\ s.current_book \notin TitledBooks

\* f.writelines(self.out_lines): the file's content
FileContent(s) == Concat(s.out_lines)

\* print(out_line) for each line: what reaches the console
RECURSIVE Printed(_)
Printed(lines) ==
    IF lines = <<>> THEN <<>> ELSE Head(lines) \o <<"\n">> \o Printed(Tail(lines))

-----------------------------------------------------------------------------
(* What the document has delivered so far, recorded beside the handler's   *)
(* own state so that properties can speak of the input.                    *)

Event(kind, name, attrs, data) == [kind |-> kind, name |-> name, attrs |-> attrs, data |-> data]

Hist0 ==
    [ idno_text    |-> <<>>,      \* the text runs delivered in the open identifier field, joined
      idno_runs    |-> 0,         \* and how many they were
      last_book    |-> 0,         \* the number at the offset of the last run of an identifier
      last_chapter |-> PyInt(0),  \* n of the last chapter division opened
      last_verse   |-> PyInt(0),  \* n of the last verse division opened
      expected     |-> 0,         \* filtered tokens of the in-scope runs so far, see Words
      expected_raw |-> 0,         \* the same counted on the raw tokens, see RawWords
      self_nested  |-> FALSE,     \* a tracked element was opened inside one of its own kind
      fragment     |-> None,      \* the hyphenated token, less its hyphen, that ended the last
                                  \*   in-scope run with tokens; None if it ended otherwise
      fragment_before |-> None,   \* fragment, before the event handled last
      trace        |-> <<>> ]     \* the events so far: <<"start", name>>, <<"end", name>>, <<"chars", "">>

HistStart(h, name, attrs) ==
    [h EXCEPT
        !.idno_text = IF name = "idno" THEN <<>> ELSE @,
        !.idno_runs = IF name = "idno" THEN 0 ELSE @,
        !.last_chapter = IF name = "div" /\ attrs.subtype = Some("chapter")
                         THEN PyStr(attrs.n[1]) ELSE @,
        !.last_verse = IF name = "div" /\ attrs.subtype = Some("verse")
                       THEN PyStr(attrs.n[1]) ELSE @,
        !.self_nested = @ \/ (name \in {"text", "head", "idno"}
                               /\ \E i \in 1..Len(stack) : stack[i] = name),
        !.fragment_before = h.fragment,
        !.trace = Append(@, <<"start", name>>)]

HistEnd(h, name) ==
    [h EXCEPT !.fragment_before = h.fragment, !.trace = Append(@, <<"end", name>>)]

\* a close marker that no open marker matches
HistStray(h, name) ==
    [h EXCEPT !.fragment_before = h.fragment, !.trace = Append(@, <<"stray", name>>)]

Open(name) == \E i \in 1..Len(stack) : stack[i] = name

\* pilcrow, left bracket, right bracket, section sign
FilterSet == {"pilcrow", "[", "]", "section"}

\* a string without its filter characters
Stripped(t) == SelectSeq(t, LAMBDA c : c \notin FilterSet)

\* The filtered tokens a text run yields, as the specification states them:
\* a raw token ending in a hyphen is kept back, without the hyphen, as the
\* pending fragment; any other raw token takes the pending fragment before it,
\* loses its filter characters and counts if something is left.
RECURSIVE Words(_, _)
Words(tokens, pending) ==
    IF tokens = <<>> THEN <<>>
    ELSE LET t == Head(tokens)
         IN  IF t[Len(t)] = "-"
             THEN Words(Tail(tokens), SubSeq(t, 1, Len(t) - 1))
             ELSE LET w == Stripped(pending \o t)
                  IN  (IF w = <<>> THEN <<>> ELSE <<w>>) \o Words(Tail(tokens), <<>>)

\* the raw tokens of a run that do not end in a hyphen and are not empty once
\* their own filter characters are gone
RawWords(tokens) ==
    SelectSeq(tokens, LAMBDA t : t[Len(t)] # "-" /\ Stripped(t) # <<>>)

\* the fragment pending in s, empty if none
Pending(s) == IF s.lb_token = None THEN <<>> ELSE s.lb_token[1]

\* the context puts a text run in the body text, outside headers and notes
BodyContext(s) == s.in_book /\ ~s.in_header /\ s.note_depth = 0

\* the number three digits at the offset of the identifier stand for
BookNumber(text) ==
    100 * DigitVal[text[IdOffset + 1]] + 10 * DigitVal[text[IdOffset + 2]]
        + DigitVal[text[IdOffset + 3]]

\* three digits stand at the offset
HasBookNumber(text) ==
    Len(text) >= IdEnd /\ \A i \in (IdOffset + 1)..IdEnd : IsDigit(text[i])

\* a text run that made the handler raise: only the identifier text is kept
HistRaised(h, data) ==
    [h EXCEPT
        !.idno_text = IF Open("idno") THEN @ \o data ELSE @,
        !.idno_runs = IF Open("idno") THEN @ + 1 ELSE @]

HistChars(h, data) ==
    [h EXCEPT
        !.idno_text = IF Open("idno") THEN @ \o data ELSE @,
        !.idno_runs = IF Open("idno") THEN @ + 1 ELSE @,
        !.last_book = IF self.in_idno /\ HasBookNumber(data) THEN BookNumber(data) ELSE @,
        !.expected = IF BodyContext(self)
                     THEN @ + Len(Words(Split(data), Pending(self))) ELSE @,
        !.expected_raw = IF BodyContext(self)
                         THEN @ + Len(RawWords(Split(data))) ELSE @,
        !.fragment = LET tokens == Split(data)
                     IN  IF ~BodyContext(self) \/ tokens = <<>> THEN @
                         ELSE IF Last(Last(tokens)) = "-" THEN Some(DropLast(Last(tokens)))
                         ELSE None,
        !.fragment_before = h.fragment,
        !.trace = Append(@, <<"chars", "">>)]

-----------------------------------------------------------------------------
(* parser.parse(vol): the events of a well-formed document, in document    *)
(* order.  An exception raised by a handler leaves parse() and ends the    *)
(* program: nothing catches it.                                            *)

InitOf(tasks, outfiles, events) ==
    /\ \E task \in tasks, outfile \in outfiles : self = SweteLXX(task, outfile)
    /\ stack = <<>>
    /\ rooted = FALSE
    /\ status = "parsing"
    /\ error = "none"
    /\ files = <<>>
    /\ console = <<>>
    /\ left = events
    /\ ev = Event("init", "", NoAttrs, <<>>)
    /\ pre = self
    /\ hist = Hist0

\* a parse() that goes on after a handler raised
OnRaise_GoOn == "parsing"

\* the status parse() is left in when a handler raises
OnRaise == "aborted"

Delivered(event) ==
    /\ left' = left - 1
    /\ ev' = event
    /\ pre' = self

StartElement(name, attrs) ==
    /\ status = "parsing"
    /\ left > 0
    /\ stack # <<>> \/ ~rooted
    /\ Delivered(Event("start", name, attrs, <<>>))
    /\ rooted' = TRUE
    /\ IF startElementRaises(name, attrs)
       THEN /\ status' = OnRaise
            /\ error' = "KeyError"
            /\ UNCHANGED <<self, stack, hist>>
       ELSE /\ self' = startElement(self, name, attrs)
            /\ stack' = Append(stack, name)
            /\ hist' = HistStart(hist, name, attrs)
            /\ UNCHANGED <<status, error>>
    /\ UNCHANGED <<files, console>>

Characters(data) ==
    /\ status = "parsing"
    /\ left > 0
    /\ stack # <<>>
    /\ Delivered(Event("chars", "", NoAttrs, data))
    /\ IF charactersRaises(self, data)
       THEN /\ status' = OnRaise
            /\ error' = "ValueError"
            /\ hist' = HistRaised(hist, data)
            /\ UNCHANGED self
       ELSE /\ self' = characters(self, data)
            /\ hist' = HistChars(hist, data)
            /\ UNCHANGED <<status, error>>
    /\ UNCHANGED <<stack, rooted, files, console>>

EndElement ==
    /\ status = "parsing"
    /\ left > 0
    /\ stack # <<>>
    /\ Delivered(Event("end", Last(stack), NoAttrs, <<>>))
    /\ self' = endElement(self, Last(stack))
    /\ stack' = DropLast(stack)
    /\ hist' = HistEnd(hist, Last(stack))
    /\ UNCHANGED <<rooted, status, error, files, console>>

EndDocument ==
    /\ status = "parsing"
    /\ rooted
    /\ stack = <<>>
    /\ ev' = Event("enddoc", "", NoAttrs, <<>>)
    /\ pre' = self
    /\ IF endDocumentRaises(self)
       THEN /\ status' = OnRaise
            /\ error' = "KeyError"
            /\ UNCHANGED <<files, console>>
       ELSE /\ status' = "done"
            /\ files' = IF self.outfile
                        THEN <<[book |-> self.current_book, content |-> FileContent(self)]>>
                        ELSE files
            /\ console' = IF self.outfile THEN console ELSE Printed(self.out_lines)
            /\ UNCHANGED error
    /\ UNCHANGED <<self, stack, rooted, left, hist>>

\* endElement called for a marker that is not open: what reaches the handler
\* when it is driven by a source that does not check the nesting
StrayEndElement(name) ==
    /\ status = "parsing"
    /\ left > 0
    /\ ~Open(name)
    /\ Delivered(Event("end", name, NoAttrs, <<>>))
    /\ self' = endElement(self, name)
    /\ hist' = HistStray(hist, name)
    /\ UNCHANGED <<stack, rooted, status, error, files, console>>

Tasks == {"compare", "convert"}

-----------------------------------------------------------------------------
(* The documents explored.  Each specification draws the events from its   *)
(* own element names, attributes and text runs; the handlers are the same. *)

ChapterAttrs == {Attrs(Some("chapter"), Some(<<n>>)) : n \in {"1", "2"}}
VerseAttrs == {Attrs(Some("verse"), Some(<<n>>)) : n \in {"1", "2"}}

\* Spec: body text with headers and notes, nested freely
Elements == {<<"text", NoAttrs>>, <<"head", NoAttrs>>, <<"note", NoAttrs>>}

Runs == {<<"a">>, <<"a", "-">>, <<"b", ".">>, <<" ">>, <<"pilcrow">>, <<"acute">>,
         <<"[", "-">>, <<"a", " ", "a", "-">>}

Init == InitOf(Tasks, {FALSE}, MaxEvents)

Next ==
    \/ \E e \in Elements : StartElement(e[1], e[2])
    \/ \E data \in Runs : Characters(data)
    \/ EndElement
    \/ EndDocument

Spec == Init /\ [][Next]_vars

\* SpecNotes: body text with notes nested in notes, and an untracked element
NotesElements == {<<"text", NoAttrs>>, <<"note", NoAttrs>>, <<"p", NoAttrs>>}

NotesRuns == {<<"a">>, <<" ">>}

InitNotes == InitOf(Tasks, {FALSE}, MaxEventsNotes)

NextNotes ==
    \/ \E e \in NotesElements : StartElement(e[1], e[2])
    \/ \E data \in NotesRuns : Characters(data)
    \/ EndElement
    \/ EndDocument

SpecNotes == InitNotes /\ [][NextNotes]_vars

\* SpecTokens: one body-text container and text runs over every character
\* the handler treats specially: all runs of at most two characters of
\* TokenChars and whitespace, every pair of one-character tokens, and the
\* other special characters alone, after a letter or before a hyphen
TokenChars == {"a", "-", ".", "pilcrow", "acute"}
OtherChars == {"[", "]", "section", "anoteleia", ","}

TokensElements == {<<"text", NoAttrs>>}

TokensRuns ==
    {<<>>}
        \cup {<<c>> : c \in TokenChars \cup OtherChars \cup {" "}}
        \cup {<<c, d>> : c, d \in TokenChars \cup {" "}}
        \cup {<<c, " ", d>> : c, d \in TokenChars}
        \cup {<<"a", c>> : c \in OtherChars}
        \cup {<<c, "-">> : c \in OtherChars}

InitTokens == InitOf(Tasks, {FALSE}, MaxEventsTokens)

NextTokens ==
    \/ \E e \in TokensElements : StartElement(e[1], e[2])
    \/ \E data \in TokensRuns : Characters(data)
    \/ EndElement
    \/ EndDocument

SpecTokens == InitTokens /\ [][NextTokens]_vars

\* SpecIdno: identifier fields and body text; the text runs are identifiers
\* of some filler and a book number at the offset, whole, cut short, cut in
\* two, or not a number
Filler == [i \in 1..IdOffset |-> "t"]

IdFull == Filler \o <<"0", "2", "7">>
IdShort == Filler \o <<"0", "2">>
IdHead == Filler \o <<"0">>
IdBad == Filler \o <<"x", "2", "7">>
IdRest == <<".", "t">>

IdnoElements == {<<"text", NoAttrs>>, <<"idno", NoAttrs>>}

IdnoRuns == {IdFull, IdShort, IdHead, IdBad, IdRest, <<"2", "7">>}

InitIdno == InitOf(Tasks, BOOLEAN, MaxEventsIdno)

NextIdno ==
    \/ \E e \in IdnoElements : StartElement(e[1], e[2])
    \/ \E data \in IdnoRuns : Characters(data)
    \/ EndElement
    \/ EndDocument

SpecIdno == InitIdno /\ [][NextIdno]_vars

\* SpecLines: convert mode with identifiers, chapter and verse divisions and
\* a token with a decomposed accent and a full stop
IdOther == Filler \o <<"0", "0", "1">>

LinesElements ==
    {<<"text", NoAttrs>>, <<"idno", NoAttrs>>}
        \cup {<<"div", a>> : a \in ChapterAttrs \cup VerseAttrs}

LinesRuns == {IdFull, IdOther, <<"a", "acute", ".">>}

InitLines == InitOf({"convert"}, {FALSE}, MaxEventsLines)

NextLines ==
    \/ \E e \in LinesElements : StartElement(e[1], e[2])
    \/ \E data \in LinesRuns : Characters(data)
    \/ EndElement
    \/ EndDocument

SpecLines == InitLines /\ [][NextLines]_vars

\* SpecHandler: the handler driven directly, event by event, with close
\* markers that may have no open marker
HandlerElements == {<<"text", NoAttrs>>, <<"note", NoAttrs>>}

HandlerRuns == {<<"a">>}

Tracked == {"text", "head", "idno", "titleStmt", "title", "note"}

InitHandler == InitOf({"compare"}, {FALSE}, MaxEventsHandler)

NextHandler ==
    \/ \E e \in HandlerElements : StartElement(e[1], e[2])
    \/ \E data \in HandlerRuns : Characters(data)
    \/ EndElement
    \/ \E name \in Tracked : StrayEndElement(name)
    \/ EndDocument

SpecHandler == InitHandler /\ [][NextHandler]_vars

\* SpecMarkers: every marker the handler knows, and chapter and verse
\* divisions, nested freely
MarkersElements ==
    {<<name, NoAttrs>> : name \in Tracked}
        \cup {<<"div", a>> : a \in ChapterAttrs \cup VerseAttrs}

MarkersRuns == {<<"a">>}

InitMarkers == InitOf(Tasks, {FALSE}, MaxEventsMarkers)

NextMarkers ==
    \/ \E e \in MarkersElements : StartElement(e[1], e[2])
    \/ \E data \in MarkersRuns : Characters(data)
    \/ EndElement
    \/ EndDocument

SpecMarkers == InitMarkers /\ [][NextMarkers]_vars

-----------------------------------------------------------------------------
(* The claims.                                                             *)

\* the fragment pending before the event handled last
PendingBefore == Pending(pre)

\* the entries the event handled last appended to the output buffer
Appended == SubSeq(self.out_lines, Len(pre.out_lines) + 1, Len(self.out_lines))

\* C1: note suppression nests.  A text run delivered while at least one note
\* is open appends nothing; the suppression is on exactly while a note is
\* open, so it is released by the close of the outermost note only; and a
\* text run of the body delivered when no note is open, holding a token,
\* appends again.
C1_NoteSuppression ==
    /\ (ev.kind = "chars" /\ Open("note")) => self.out_lines = pre.out_lines
    /\ self.in_note <=> Open("note")
    /\ (ev.kind = "chars" /\ ~Open("note") /\ pre.in_book /\ ~pre.in_header
            /\ Words(Split(ev.data), PendingBefore) # <<>>)
        => Len(self.out_lines) > Len(pre.out_lines)

\* open, open, close, a text run (suppressed), close, a text run (emitted)
C1_Witness ==
    /\ hist.trace = << <<"start", "text">>, <<"start", "note">>, <<"start", "note">>,
                       <<"end", "note">>, <<"chars", "">>, <<"end", "note">>,
                       <<"chars", "">> >>
    /\ ev.data = <<"a">>
    /\ Len(self.out_lines) = 1

\* the ano teleia substitution, character by character
Canon(t) == [i \in 1..Len(t) |-> IF t[i] = "anoteleia" THEN "middot" ELSE t[i]]

\* the filtered tokens of the text run handled last
WordsOfRun == Words(Split(ev.data), PendingBefore)

\* a compare-mode text run of the body was handled last
CompareRun == ev.kind = "chars" /\ pre.task = "compare" /\ BodyContext(pre)

\* The entries C4 states for one token, word for word: the token without its
\* last character and that character, or the token whole.
LiteralEntries(t) ==
    IF remove_punctuation(t) = DropLast(t)
    THEN << DropLast(t), <<Last(t)>> >>
    ELSE << t >>

\* The same with the word entry NFC-normalised.
NormalEntries(t) ==
    IF remove_punctuation(t) = DropLast(t)
    THEN << unicode_normalize(DropLast(t)), <<Last(t)>> >>
    ELSE << unicode_normalize(t) >>

\* C4 as stated: in compare mode the buffer receives, for every filtered
\* token (as the punctuation step sees it, after the ano teleia
\* substitution) whose punctuation-stripped form is the token minus its last
\* character, end_token and then punct_token, and for every other token the
\* whole token.
C4_AsStated ==
    CompareRun =>
        Appended = Concat([i \in 1..Len(WordsOfRun) |->
                             LiteralEntries(Canon(WordsOfRun[i]))])

\* C4 amended: the word entry (end_token, or the whole token when nothing is
\* split off) is appended NFC-normalised; the punctuation entry is the last
\* character as it is, and end_token + punct_token = token.
C4_PunctuationSplit ==
    CompareRun =>
        /\ Appended = Concat([i \in 1..Len(WordsOfRun) |->
                                NormalEntries(Canon(WordsOfRun[i]))])
        /\ \A i \in 1..Len(WordsOfRun) :
             LET t == Canon(WordsOfRun[i])
                 parts == HandlePunctuation(t)
             IN  parts[2] # None => parts[1] \o parts[2][1] = t

\* a fragment joined to a combining accent and a full stop: split in two,
\* the word composed
C4_Witness ==
    /\ CompareRun
    /\ pre.lb_token = Some(<<"a">>)
    /\ ev.data = <<"acute", ".">>
    /\ Appended = << <<"a_acute">>, <<".">> >>

\* the part of an output line after the location: the token
TokenPart(line) ==
    LET sp == CHOOSE i \in 1..Len(line) :
                  line[i] = " " /\ \A j \in 1..(i - 1) : line[j] # " "
    IN  SubSeq(line, sp + 1, Len(line) - 1)

\* C6: no entry appended holds a filter character in what it has of the
\* token (compare: the entry; convert: the line after its location), however
\* many the raw token and the pending fragment held; and a text run whose
\* tokens are nothing but filter characters appends nothing.
C6_NoFilterChars ==
    /\ \A i \in 1..Len(self.out_lines) :
         LET entry == self.out_lines[i]
             token == IF self.task = "convert" THEN TokenPart(entry) ELSE entry
         IN  \A j \in 1..Len(token) : token[j] \notin FilterSet
    /\ (ev.kind = "chars" /\ WordsOfRun = <<>>) => Appended = <<>>

\* a fragment and a token with a pilcrow each, emitted as one clean token
C6_Witness ==
    /\ ev.kind = "chars" /\ ev.data = <<"pilcrow", "a">>
    /\ pre.lb_token = Some(<<"pilcrow">>)
    /\ Len(Appended) = 1

\* C10: an empty or whitespace-only text run of the body appends nothing.
C10_BlankRun ==
    (ev.kind = "chars" /\ BodyContext(pre) /\ \A i \in 1..Len(ev.data) : ev.data[i] \in Whitespace)
        => self.out_lines = pre.out_lines

\* a whitespace-only run in the body, after a run that emitted and left a
\* fragment pending
C10_Witness ==
    /\ ev.kind = "chars" /\ ev.data = <<" ", " ">> /\ BodyContext(pre)
    /\ pre.lb_token # None
    /\ pre.out_lines # <<>>

\* the entries a filtered token gives in the context s
EntriesFor(s, w) ==
    IF s.task = "compare" THEN NormalEntries(Canon(w))
    ELSE IF s.task = "convert"
         THEN << OUTLINE(s.current_book, s.current_chapter, s.current_verse,
                         unicode_normalize(w)) >>
    ELSE <<>>

\* the entries a sequence of filtered tokens gives
RunEntries(s, words) == Concat([i \in 1..Len(words) |-> EntriesFor(s, words[i])])

\* the entries the token t gives when it is emitted as it stands
EntriesAsIs(s, t) ==
    IF s.task = "compare" THEN LiteralEntries(t)
    ELSE IF s.task = "convert"
         THEN << OUTLINE(s.current_book, s.current_chapter, s.current_verse, t) >>
    ELSE <<>>

\* the raw tokens of the text run handled last
TokensOfRun == Split(ev.data)

\* The run handled last is in scope and starts with a continuation (a raw
\* token that is not itself a hyphenated fragment) while the last in-scope
\* run with tokens ended in a hyphenated fragment.
ContinuationRun ==
    /\ ev.kind = "chars" /\ BodyContext(pre)
    /\ hist.fragment_before # None
    /\ TokensOfRun # <<>>
    /\ Last(Head(TokensOfRun)) # "-"

\* The run handled last is in scope and ends in a hyphenated fragment.
FragmentRun ==
    /\ ev.kind = "chars" /\ BodyContext(pre)
    /\ TokensOfRun # <<>>
    /\ Last(Last(TokensOfRun)) = "-"

\* C2 as stated: fragment and continuation give exactly one token, the
\* fragment without its hyphen followed by the continuation (in compare mode
\* with its trailing punctuation as an entry of its own), before the entries
\* of the rest of the run.
C2_AsStated ==
    ContinuationRun =>
        Appended = EntriesAsIs(self, hist.fragment_before[1] \o Head(TokensOfRun))
                       \o RunEntries(self, Words(Tail(TokensOfRun), <<>>))

\* C2 amended: fragment and continuation give what the one raw token
\* "fragment without its hyphen + continuation" gives: a single token,
\* filtered and NFC-normalised (in compare mode with its trailing punctuation
\* as an entry of its own), or nothing if only filter characters make it up;
\* and the run that ends in the fragment appends nothing for it.
C2_HyphenReassembly ==
    /\ ContinuationRun =>
         Appended = RunEntries(self, Words(<<hist.fragment_before[1] \o Head(TokensOfRun)>>, <<>>))
                       \o RunEntries(self, Words(Tail(TokensOfRun), <<>>))
    /\ FragmentRun =>
         Appended = RunEntries(self, Words(DropLast(TokensOfRun),
                                  IF hist.fragment_before = None THEN <<>>
                                  ELSE hist.fragment_before[1]))

\* "a-" in the body, a note opened and closed, then "b.": one line "ab."
C2_Witness ==
    /\ ContinuationRun
    /\ hist.fragment_before = Some(<<"a">>)
    /\ ev.data = <<"b", ".">>
    /\ hist.trace = << <<"start", "text">>, <<"chars", "">>, <<"start", "note">>,
                       <<"end", "note">>, <<"chars", "">> >>
    /\ self.task = "convert"
    /\ self.out_lines = << <<"0", ".", "0", ".", "0", " ", "a", "b", ".", "\n">> >>

\* C3 as stated: at the end of the parse in convert mode the buffer has as
\* many entries as the in-scope runs had raw tokens that do not end in a
\* hyphen and are not empty once filtered.
C3_AsStated ==
    (status = "done" /\ self.task = "convert") => Len(self.out_lines) = hist.expected_raw

\* C3 amended: as many entries as the in-scope runs had raw tokens that do
\* not end in a hyphen and, with the pending fragment before them, are not
\* empty once filtered; in scope is a run delivered while the context has
\* in_book set, in_header clear and note_depth 0.  It holds all along the
\* parse, so at its end.
C3_EntryCount ==
    self.task = "convert" => Len(self.out_lines) = hist.expected

\* a finished parse: a token in the body, a run in a note, a token after it
C3_Witness ==
    /\ status = "done" /\ self.task = "convert"
    /\ hist.trace = << <<"start", "text">>, <<"chars", "">>, <<"start", "note">>,
                       <<"chars", "">>, <<"end", "note">>, <<"end", "text">> >>
    /\ Len(self.out_lines) = 1
    /\ hist.expected = 1

\* a convert-mode text run of the body was handled last
ConvertRun ==
    ev.kind = "chars" /\ error = "none" /\ pre.task = "convert" /\ BodyContext(pre)

\* "<book>.<chapter>.<verse> <token>\n" for the book, chapter and verse the
\* document has set last
Line(token) ==
    IntToStr(hist.last_book) \o <<".">> \o Format(hist.last_chapter) \o <<".">>
        \o Format(hist.last_verse) \o <<" ">> \o token \o <<"\n">>

\* C5 as stated: every line a convert-mode run appends is the location,
\* current at that moment, and the whole filtered token, one line per token.
C5_AsStated ==
    ConvertRun => Appended = [i \in 1..Len(WordsOfRun) |-> Line(WordsOfRun[i])]

\* C5 amended: the token of the line is the whole filtered token
\* NFC-normalised.
C5_ConvertLine ==
    ConvertRun =>
        Appended = [i \in 1..Len(WordsOfRun) |-> Line(unicode_normalize(WordsOfRun[i]))]

\* book 27 from the identifier, chapter 2, no verse yet: the line "27.2.0 á.\n"
C5_Witness ==
    /\ ConvertRun
    /\ hist.last_book = 27
    /\ hist.last_chapter = PyStr(<<"2">>)
    /\ Appended = << <<"2", "7", ".", "2", ".", "0", " ", "a_acute", ".", "\n">> >>

\* an identifier run was handed to the handler last
IdentifierRun == ev.kind = "chars" /\ pre.in_idno

\* C7 as stated: the extraction fails, and leaves current_book alone,
\* whenever the run is shorter than offset plus width or has no three digits
\* there.
C7_AsStated ==
    (IdentifierRun /\ ~HasBookNumber(ev.data))
        => (status = "aborted" /\ error = "ValueError"
              /\ self.current_book = pre.current_book)

\* C8: once the extraction has failed the parse is over: parse() is left by
\* the exception, nothing was written to a file or the console, and no
\* further event is handled (no step leaves such a state).
C8_AbortOnFailure ==
    /\ [](error = "ValueError"
            => (status = "aborted" /\ files = <<>> /\ console = <<>>
                  /\ ev.kind = "chars" /\ pre.in_idno /\ self = pre))
    /\ [][error # "ValueError"]_vars

\* the extraction failed with entries in the buffer
C8_Witness ==
    /\ error = "ValueError"
    /\ ev.data = IdBad
    /\ self.out_lines # <<>>

\* C9 as stated: when the identifier text came in several runs and has a
\* book number at the offset, the parse has not failed on it and, once the
\* field is closed, current_book is that number.
C9_AsStated ==
    (hist.idno_runs >= 2 /\ HasBookNumber(hist.idno_text)
        /\ (Open("idno") \/ (ev.kind = "end" /\ ev.name = "idno")))
        => /\ error # "ValueError"
           /\ (ev.kind = "end" => self.current_book = BookNumber(hist.idno_text))

\* some close marker of this name had no open marker
Unmatched(name) == \E i \in 1..Len(hist.trace) : hist.trace[i] = <<"stray", name>>

\* C11 as stated: whatever the events, in_note is set exactly when
\* note_depth is at least 1.
C11_AsStated == self.in_note <=> self.note_depth >= 1

\* C11 amended: as long as every note close had its note open, in_note is
\* set exactly when note_depth is at least 1.
C11_NoteFlag == ~Unmatched("note") => (self.in_note <=> self.note_depth >= 1)

\* two notes opened, one closed: the flag stays with depth 1
C11_Witness ==
    /\ ~Unmatched("note")
    /\ ev.kind = "end" /\ ev.name = "note"
    /\ pre.note_depth = 2
    /\ self.note_depth = 1 /\ self.in_note

\* the event handled last was a close marker with no open marker
StrayClose ==
    ev.kind = "end" /\ hist.trace # <<>> /\ Last(hist.trace) = <<"stray", ev.name>>

\* C15: a close marker with no open marker raises nothing, whatever tracked
\* marker it names; a note close at depth 0 takes note_depth to -1; and the
\* counter is neither clamped nor reset afterwards: every event leaves it as
\* it was, but a note open, which adds one, and a note close, which takes one.
C15_UnmatchedClose ==
    /\ StrayClose => (error = "none" /\ status = "parsing")
    /\ (StrayClose /\ ev.name = "note" /\ pre.note_depth = 0) => self.note_depth = -1
    /\ self.note_depth = pre.note_depth
           + (IF ev.kind = "start" /\ ev.name = "note" THEN 1 ELSE 0)
           - (IF ev.kind = "end" /\ ev.name = "note" THEN 1 ELSE 0)

\* a note close before anything is open, then body text: the run is handled
\* at depth -1
C15_Witness ==
    /\ hist.trace = << <<"stray", "note">>, <<"start", "text">>, <<"chars", "">> >>
    /\ self.note_depth = -1
    /\ Appended = << <<"a">> >>

\* A text run of the body was handled last.
BodyRun == ev.kind = "chars" /\ error = "none" /\ BodyContext(pre)

\* The tokens of a run when every raw token takes the pending fragment before
\* it, as C12 states: the joined token is kept back as the new fragment if it
\* ends in a hyphen, and is a word (if it is not empty once filtered)
\* otherwise.  <<words, fragment left pending>>
RECURSIVE Consumed(_, _)
Consumed(tokens, pending) ==
    IF tokens = <<>> THEN << <<>>, pending >>
    ELSE LET joined == pending \o Head(tokens)
         IN  IF Last(joined) = "-"
             THEN Consumed(Tail(tokens), DropLast(joined))
             ELSE LET rest == Consumed(Tail(tokens), <<>>)
                      w == Stripped(joined)
                  IN  << (IF w = <<>> THEN <<>> ELSE <<w>>) \o rest[1], rest[2] >>

\* C12 as stated: every raw token of an in-scope run is processed with the
\* pending fragment before it, so the run's entries and the fragment it
\* leaves pending are those of Consumed: no fragment is lost.
C12_AsStated ==
    BodyRun =>
        LET stated == Consumed(TokensOfRun, PendingBefore)
        IN  /\ Appended = RunEntries(self, stated[1])
            /\ Pending(self) = stated[2]

\* C13: the output buffer is append-only.  Whatever event was handled last,
\* the buffer before it is a prefix of the buffer after it; and an open or a
\* close marker leaves the buffer as it was.
C13_AppendOnly ==
    /\ Len(pre.out_lines) <= Len(self.out_lines)
    /\ SubSeq(self.out_lines, 1, Len(pre.out_lines)) = pre.out_lines
    /\ ev.kind \in {"start", "end"} => self.out_lines = pre.out_lines

\* a run appends to a buffer that has entries, then a marker closes
C13_Witness ==
    /\ ev.kind = "end"
    /\ hist.trace = << <<"start", "text">>, <<"chars", "">>, <<"start", "note">>,
                       <<"end", "note">>, <<"chars", "">>, <<"end", "text">> >>
    /\ Len(self.out_lines) >= 3

\* the boolean each marker stands for
FlagOf ==
    [name \in {"text", "head", "idno", "titleStmt", "title"} |->
        CASE name = "text" -> "in_book"
          [] name = "head" -> "in_header"
          [] name = "idno" -> "in_idno"
          [] name = "titleStmt" -> "in_titlestmt"
          [] name = "title" -> "in_title"]

\* C14: what the markers change.  Closing a body-text, header, identifier,
\* title-statement or title marker clears its own boolean and changes nothing
\* else; closing a note takes one from note_depth and clears in_note only if
\* the depth is back at 0; opening a chapter division sets current_chapter
\* only, opening a verse division current_verse only; closing a division
\* changes nothing.
C14_MarkerFrame ==
    /\ (ev.kind = "end" /\ ev.name \in DOMAIN FlagOf)
         => self = [pre EXCEPT ![FlagOf[ev.name]] = FALSE]
    /\ (ev.kind = "end" /\ ev.name = "note")
         => self = [pre EXCEPT !.note_depth = pre.note_depth - 1,
                               !.in_note = IF pre.note_depth - 1 = 0 THEN FALSE
                                           ELSE pre.in_note]
    /\ (ev.kind = "end" /\ ev.name = "div") => self = pre
    /\ (ev.kind = "start" /\ ev.name = "div" /\ error = "none"
            /\ ev.attrs.subtype = Some("chapter"))
         => self = [pre EXCEPT !.current_chapter = PyStr(ev.attrs.n[1])]
    /\ (ev.kind = "start" /\ ev.name = "div" /\ error = "none"
            /\ ev.attrs.subtype = Some("verse"))
         => self = [pre EXCEPT !.current_verse = PyStr(ev.attrs.n[1])]

\* chapter 1, verse 1, the verse closed, chapter 2 opened: verse 1 stays
C14_Witness ==
    /\ hist.trace = << <<"start", "div">>, <<"start", "div">>, <<"end", "div">>,
                       <<"start", "div">> >>
    /\ pre.current_chapter = PyStr(<<"1">>)
    /\ self.current_chapter = PyStr(<<"2">>)
    /\ self.current_verse = PyStr(<<"1">>)

\* the fragment the last in-scope run with tokens left, empty if none
FragmentBefore == IF hist.fragment_before = None THEN <<>> ELSE hist.fragment_before[1]

\* C16: a text run delivered while the context is out of scope (in_book
\* clear, or in_header set, or a note open) leaves the buffer and the pending
\* fragment as they were; no open or close marker changes the pending
\* fragment; hence the fragment pending when an in-scope run arrives is the
\* one the last in-scope run with tokens left.
C16_OutOfScopeFrame ==
    /\ (ev.kind = "chars" /\ error = "none" /\ ~BodyContext(pre))
         => (self.out_lines = pre.out_lines /\ self.lb_token = pre.lb_token)
    /\ ev.kind \in {"start", "end"} => self.lb_token = pre.lb_token
    /\ BodyRun => PendingBefore = FragmentBefore

\* "a-" in the body, a header with a run of its own, then an in-scope run:
\* the fragment is still there to be joined
C16_Witness ==
    /\ BodyRun
    /\ hist.trace = << <<"start", "text">>, <<"chars", "">>, <<"start", "head">>,
                       <<"chars", "">>, <<"end", "head">>, <<"chars", "">> >>
    /\ pre.lb_token = Some(<<"a">>)
    /\ hist.fragment_before = Some(<<"a">>)
    /\ ev.data = <<"a">>
    /\ Len(Appended) = 1

\* C18 as stated: a text run delivered while a header is open appends
\* nothing; a text run holding a token, delivered while a body-text container
\* is open and no header or note is, appends.
C18_AsStated ==
    /\ (ev.kind = "chars" /\ error = "none" /\ Open("head"))
         => self.out_lines = pre.out_lines
    /\ (ev.kind = "chars" /\ error = "none" /\ Open("text") /\ ~Open("head")
            /\ ~Open("note") /\ Words(TokensOfRun, PendingBefore) # <<>>)
         => Len(self.out_lines) > Len(pre.out_lines)

\* C17 as stated: in compare mode no entry of the output buffer is the empty
\* string.
C17_AsStated ==
    self.task = "compare" => \A i \in 1..Len(self.out_lines) : self.out_lines[i] # <<>>

====
